---- MODULE Spec2Model ----
(***************************************************************************)
(* Model of the nodejs-fs project generator (src/src/createProject.ts,     *)
(* src/src/utils/copyTemplate.ts, src/src/utils/runCommand.ts and the CLI   *)
(* action of src/src/bootstrap.js).                                         *)
(*                                                                         *)
(* Strings the code inspects character by character (project names,        *)
(* relative paths, file text) are sequences of one-character strings.      *)
(* The disk is a function from the absolute paths the tool can resolve to  *)
(* an entry: absent, a regular file, or a directory with its entries.      *)
(***************************************************************************)
EXTENDS Integers, Sequences, FiniteSets, TLC

VARIABLES
  disk,         \* absolute path -> entry (absent / file / directory)
  pc,           \* position of the CLI action and of createProject
  projectName,  \* argument of the current run
  options,      \* CliOptions of the current run (the replacements of a
                \* direct replacePlaceholders call)
  projectPath,  \* value returned by createProjectDirectory (NoPath before)
  steps,        \* steps started in the current run (logger.step calls)
  spawned,      \* child processes spawned through runCommand in this run
  warnings,     \* logger.warn and spinner.fail messages of this run
  error,        \* the error in flight / thrown by createProject
  failedAt,     \* step whose failure reached createProject's catch block
  exitCode,     \* process exit status of the finished run
  runs,         \* number of CLI invocations started so far
  prev,         \* name and failed step of the previous invocation
  start,        \* the entry at the project path when this run started
  fault         \* environment fault (I/O error) met in this run, if any

vars == <<disk, pc, projectName, options, projectPath, steps, spawned,
          warnings, error, failedAt, exitCode, runs, prev, start, fault>>

---------------------------------------------------------------------------
(* Bounds *)

MaxRuns == 2
MaxCopies == 2

---------------------------------------------------------------------------
(* Characters and strings *)

LowerSeq == <<"a","b","c","d","e","f","g","h","i","j","k","l","m",
              "n","o","p","q","r","s","t","u","v","w","x","y","z">>
UpperSeq == <<"A","B","C","D","E","F","G","H","I","J","K","L","M",
              "N","O","P","Q","R","S","T","U","V","W","X","Y","Z">>
Digits == {"0","1","2","3","4","5","6","7","8","9"}

Range(s) == {s[i] : i \in 1..Len(s)}

\* String.prototype.toLowerCase, per character and per string
ToLowerChar(c) ==
  IF \E i \in 1..Len(UpperSeq) : UpperSeq[i] = c
    THEN LowerSeq[CHOOSE i \in 1..Len(UpperSeq) : UpperSeq[i] = c]
    ELSE c

\* the comparison forgot to lower the case
toLowerCaseMutant(s) == s
toLowerCase(s) == [i \in 1..Len(s) |-> ToLowerChar(s[i])]

\* String.prototype.includes / endsWith / startsWith
Includes(s, sub) ==
  \E i \in 0..(Len(s) - Len(sub)) : SubSeq(s, i + 1, i + Len(sub)) = sub

EndsWith(s, suf) ==
  /\ Len(suf) <= Len(s)
  /\ SubSeq(s, Len(s) - Len(suf) + 1, Len(s)) = suf

StartsWith(s, pre) ==
  /\ Len(pre) <= Len(s)
  /\ SubSeq(s, 1, Len(pre)) = pre

---------------------------------------------------------------------------
(* validateProjectName (createProject.ts 23-41) *)

\* the regex without its end anchor: /^[a-z0-9-_]+/i
validNameRegexMutant(s) ==
  /\ Len(s) >= 1
  /\ s[1] \in Range(LowerSeq) \cup Range(UpperSeq) \cup Digits \cup {"-", "_"}

\* /^[a-z0-9-_]+$/i : one or more of letters, digits, hyphen, underscore
validNameRegex(s) ==
  /\ Len(s) >= 1
  /\ \A i \in 1..Len(s) :
       s[i] \in Range(LowerSeq) \cup Range(UpperSeq) \cup Digits \cup {"-", "_"}

reservedNames ==
  { <<"n","o","d","e","_","m","o","d","u","l","e","s">>,
    <<"s","r","c">>,
    <<"t","e","s","t">>,
    <<"t","e","s","t","s">> }

MaxNameLength == 214

NoError == [msg |-> <<>>, code |-> "none"]

Err(m, c) == [msg |-> m, code |-> c]

InvalidCharsMsg ==
  <<"Project name can only contain letters, numbers, hyphens, and underscores">>
ReservedMsg == <<" is a reserved name and cannot be used">>
LengthMsg == <<"Project name must be between 1 and 214 characters">>

\* a validator whose upper length limit is off by one
validateProjectNameStrict(name) ==
  IF ~validNameRegex(name) THEN Err(InvalidCharsMsg, "none")
  ELSE IF toLowerCase(name) \in reservedNames THEN Err(ReservedMsg, "none")
  ELSE IF Len(name) < 1 \/ Len(name) >= MaxNameLength THEN Err(LengthMsg, "none")
  ELSE NoError

\* a validator without the reserved-name rule
validateProjectNameMutant(name) ==
  IF ~validNameRegex(name) THEN Err(InvalidCharsMsg, "none")
  ELSE IF Len(name) < 1 \/ Len(name) > MaxNameLength THEN Err(LengthMsg, "none")
  ELSE NoError

\* The error validateProjectName throws, NoError when it returns
validateProjectName(name) ==
  IF ~validNameRegex(name) THEN Err(InvalidCharsMsg, "none")
  ELSE IF toLowerCase(name) \in reservedNames THEN Err(ReservedMsg, "none")
  ELSE IF Len(name) < 1 \/ Len(name) > MaxNameLength THEN Err(LengthMsg, "none")
  ELSE NoError

---------------------------------------------------------------------------
(* Placeholder substitution (copyTemplate.ts 61-78) *)

RECURSIVE GetSubstitution(_, _, _, _)
\* what String.prototype.replace puts in place of one match when the
\* replacement is a string: "$$" stands for "$", "$&" for the match, "$`"
\* and "$'" for the text before and after the match; the pattern has no
\* capture group, so "$1" and every other "$" stay as they are
GetSubstitution(val, matched, before, after) ==
  IF val = <<>> THEN <<>>
  ELSE IF val[1] = "$" /\ Len(val) >= 2
    THEN LET rest == SubSeq(val, 3, Len(val)) IN
         CASE val[2] = "$" -> <<"$">> \o GetSubstitution(rest, matched, before, after)
           [] val[2] = "&" -> matched \o GetSubstitution(rest, matched, before, after)
           [] val[2] = "`" -> before \o GetSubstitution(rest, matched, before, after)
           [] val[2] = "'" -> after \o GetSubstitution(rest, matched, before, after)
           [] OTHER -> <<"$">> \o GetSubstitution(Tail(val), matched, before, after)
    ELSE <<val[1]>> \o GetSubstitution(Tail(val), matched, before, after)

RECURSIVE ReplaceFrom(_, _, _, _)
\* the scan of a global replace from position i of text
ReplaceFrom(text, pat, val, i) ==
  IF i + Len(pat) - 1 > Len(text) THEN SubSeq(text, i, Len(text))
  ELSE IF SubSeq(text, i, i + Len(pat) - 1) = pat
    THEN GetSubstitution(val, pat, SubSeq(text, 1, i - 1),
                         SubSeq(text, i + Len(pat), Len(text)))
         \o ReplaceFrom(text, pat, val, i + Len(pat))
    ELSE <<text[i]>> \o ReplaceFrom(text, pat, val, i + 1)

\* String.prototype.replace with a global regex of a literal pattern:
\* every non-overlapping match, scanning left to right, is replaced
ReplaceAll(text, pat, val) == ReplaceFrom(text, pat, val, 1)

\* the source of new RegExp(`{{${key}}}`, 'g'), for a key of letters and
\* underscores: the braces match themselves
PlaceholderOf(key) == <<"{","{">> \o key \o <<"}","}">>

RECURSIVE ApplyReplacements(_, _)
\* the for-loop over Object.entries(replacements): entries in order, each
\* applied to the result of the previous one
ApplyReplacements(content, replacements) ==
  IF replacements = <<>> THEN content
  ELSE ApplyReplacements(
         ReplaceAll(content, PlaceholderOf(Head(replacements).key),
                    Head(replacements).value),
         Tail(replacements))

PROJECT_NAME == <<"P","R","O","J","E","C","T","_","N","A","M","E">>

---------------------------------------------------------------------------
(* Files, directories and the disk *)

JsonFile(fields) == [type |-> "json", fields |-> fields, text |-> <<>>]
TextFile(text) == [type |-> "text", fields |-> <<>>, text |-> text]
SubDir == [type |-> "dir", fields |-> <<>>, text |-> <<>>]

NoFiles == [p \in {} |-> SubDir]

Absent == [kind |-> "absent", files |-> NoFiles]
RegularFile == [kind |-> "file", files |-> NoFiles]
Dir(files) == [kind |-> "dir", files |-> files]

Sep == <<"/">>

\* path.join(a, b) for a relative path b without "." or ".." segments
Join(a, b) == a \o Sep \o b

\* a is a proper ancestor directory of p
IsAncestor(a, p) == StartsWith(p, a \o Sep)

pathExistsMutant(d, p) == FALSE
\* fs.pathExists
pathExists(d, p) == d[p].kind # "absent"

\* fs.readdir of a directory: the names of its direct entries
readdir(entry) == {p \in DOMAIN entry.files : ~Includes(p, Sep)}

isDirEmptyMutant(d, p) == TRUE
\* isDirEmpty (createProject.ts 49-56): readdir throws on anything that is
\* not a directory, and the catch block answers true
isDirEmpty(d, p) ==
  IF d[p].kind = "dir" THEN Cardinality(readdir(d[p])) = 0 ELSE TRUE

---------------------------------------------------------------------------
(* The template tree lib/templates/base-backend *)

PackageJsonPath == <<"p","a","c","k","a","g","e",".","j","s","o","n">>
ReadmePath == <<"R","E","A","D","M","E",".","m","d">>
SrcPath == <<"s","r","c">>
IndexJsPath == <<"s","r","c","/","i","n","d","e","x",".","j","s">>
GitignorePath == <<".","g","i","t","i","g","n","o","r","e">>
LogsPath == <<"l","o","g","s">>
AppLogPath == <<"l","o","g","s","/","a","p","p",".","l","o","g">>
NotesPath == <<"n","o","t","e","s",".","t","x","t">>

TemplatePackageJson ==
  JsonFile(<< [key |-> "name", value |-> PlaceholderOf(PROJECT_NAME)],
              [key |-> "version", value |-> <<"1",".","0",".","0">>] >>)

\* "# {{PROJECT_NAME}}" followed by text without any placeholder
TemplateReadme == TextFile(<<"#"," ">> \o PlaceholderOf(PROJECT_NAME) \o <<"\n","A","P","I">>)

TemplateIndexJs == TextFile(<<"a","p","p","(",")">>)

BaseBackend ==
  (PackageJsonPath :> TemplatePackageJson) @@
  (ReadmePath :> TemplateReadme) @@
  (SrcPath :> SubDir) @@
  (IndexJsPath :> TemplateIndexJs) @@
  (GitignorePath :> TextFile(<<".","e","n","v">>)) @@
  (LogsPath :> SubDir) @@
  (AppLogPath :> TextFile(<<"l","o","g">>))

\* the object literal of copyTemplateFiles (createProject.ts 105-109)
templateMap ==
  [basic |-> "base-backend", secure |-> "base-backend", full |-> "base-backend"]

\* keys every object literal inherits from Object.prototype: a lookup of one
\* of them finds a function or an object, never undefined
ObjectPrototypeKeys ==
  {"constructor", "toString", "valueOf", "hasOwnProperty", "__proto__"}

\* stands for the inherited member such a lookup finds: a truthy value that
\* is not a string
InheritedMember == "[inherited member]"

\* const { template = 'full' } = options;
\* templateMap[template] || 'base-backend' (createProject.ts 100-111)
templateName(template) ==
  LET t == IF template = "unset" THEN "full" ELSE template IN
  IF t \in DOMAIN templateMap THEN templateMap[t]
  ELSE IF t \in ObjectPrototypeKeys THEN InheritedMember
  ELSE "base-backend"

\* the tree found at lib/templates/<name>
TemplateTree(name) == IF name = "base-backend" THEN BaseBackend ELSE NoFiles

---------------------------------------------------------------------------
(* copyTemplate (copyTemplate.ts 16-59) *)

\* I/O errors the operating system can raise in any filesystem call
FaultCodes == {"EACCES", "ENOSPC", "EIO"}

\* a raw filesystem error: its message starts with the code, and it
\* carries the code as its .code property
IoError(code) == Err(<<code>>, code)

\* a filter that forgot the dist rule
shouldSkipMutant(relativePath) ==
  \/ Includes(relativePath, <<"n","o","d","e","_","m","o","d","u","l","e","s">>)
  \/ Includes(relativePath, <<".","g","i","t">>)
  \/ Includes(relativePath, <<"l","o","g","s">>)
  \/ Includes(relativePath, <<"b","u","i","l","d">>)
  \/ EndsWith(relativePath, <<".","l","o","g">>)

\* the filter's shouldSkip (copyTemplate.ts 38-44)
shouldSkip(relativePath) ==
  \/ Includes(relativePath, <<"n","o","d","e","_","m","o","d","u","l","e","s">>)
  \/ Includes(relativePath, <<".","g","i","t">>)
  \/ Includes(relativePath, <<"l","o","g","s">>)
  \/ Includes(relativePath, <<"d","i","s","t">>)
  \/ Includes(relativePath, <<"b","u","i","l","d">>)
  \/ EndsWith(relativePath, <<".","l","o","g">>)

\* fs.copy walks top-down and never enters a directory the filter rejected
Visited(tree, p) == \A a \in DOMAIN tree : IsAncestor(a, p) => ~shouldSkip(a)

CopyPlan(tree) == {p \in DOMAIN tree : Visited(tree, p) /\ ~shouldSkip(p)}

\* the options handed to fs.copy (copyTemplate.ts 34-35)
overwriteMutant == TRUE
overwrite == FALSE
errorOnExistMutant == TRUE
errorOnExist == FALSE

\* fs.copy on one plan entry whose destination may exist: a directory is
\* created when missing; a file is copied when missing, replaced under
\* overwrite, and otherwise left alone
CopyEntry(existing, tree, p) ==
  IF p \notin DOMAIN existing THEN tree[p]
  ELSE IF tree[p].type = "dir" THEN existing[p]
  ELSE IF overwrite THEN tree[p]
  ELSE existing[p]

\* with overwrite off and errorOnExist on, an existing destination file
\* makes fs.copy throw
Conflict(existing, tree, p) ==
  /\ p \in DOMAIN existing
  /\ tree[p].type # "dir"
  /\ existing[p].type # "dir"
  /\ ~overwrite
  /\ errorOnExist

\* fs.copy checks every pair of paths before it copies: a directory never
\* replaces a file and a file never replaces a directory, whatever the
\* options say
TypeClash(existing, tree, p) ==
  /\ p \in DOMAIN existing
  /\ (tree[p].type = "dir") # (existing[p].type = "dir")

\* the entries of a target after fs.copy has processed the plan entries P
AfterCopy(existing, tree, P) ==
  [q \in DOMAIN existing \cup P |->
     IF q \in P THEN CopyEntry(existing, tree, q) ELSE existing[q]]

\* a set of plan entries the walk can have processed when it stops: a
\* directory is processed before what it holds
Closed(P, tree) == \A p \in P : \A a \in CopyPlan(tree) : IsAncestor(a, p) => a \in P

\* a catch block that rethrows what it caught
CopyFailedMutant(inner) == inner
CopyFailed(inner) == Err(<<"Failed to copy template: ">> \o inner.msg, "none")
TemplateNotFound == Err(<<"Template ", "base-backend", " not found at ">>, "none")
AlreadyExists == Err(<<"already exists">>, "none")
NotADirectory == Err(<<"Cannot overwrite non-directory">>, "none")
IsADirectory == Err(<<"Cannot overwrite directory">>, "none")

\* the error fs.copy throws at a plan entry it cannot process
ClashError(existing, tree, p) ==
  IF TypeClash(existing, tree, p)
    THEN IF tree[p].type = "dir" THEN NotADirectory ELSE IsADirectory
    ELSE AlreadyExists

\* Every outcome of fs.copy(templatePath, targetPath, ...) inside
\* copyTemplate, for the template `tree`: the target entry afterwards, the
\* error thrown (NoError on success) and the environment fault, if any, that
\* caused it.  The subtrees are copied concurrently, so a failing copy leaves
\* any closed part of the plan behind.
CopyTree(target, tree) ==
  LET plan == CopyPlan(tree)
      existing == target.files
      clash == {p \in plan : Conflict(existing, tree, p) \/ TypeClash(existing, tree, p)}
      \* the walk meets a clash only when it got through every directory above
      met == {p \in clash : \A a \in plan : IsAncestor(a, p) => a \notin clash}
      partial == {P \in SUBSET (plan \ clash) : Closed(P, tree)}
  IN
  IF target.kind = "file"
    THEN {[entry |-> target, err |-> CopyFailed(NotADirectory), fault |-> "none"]}
    ELSE
      \* the copy completes
      (IF clash = {}
         THEN {[entry |-> Dir(AfterCopy(existing, tree, plan)),
                err |-> NoError, fault |-> "none"]}
         ELSE {[entry |-> Dir(AfterCopy(existing, tree, P)),
                err |-> CopyFailed(ClashError(existing, tree, p)),
                fault |-> "none"] : P \in partial, p \in met})
      \cup
      \* an I/O error aborts the walk
      {[entry |-> Dir(AfterCopy(existing, tree, P)),
        err |-> CopyFailed(IoError(c)), fault |-> c] :
          P \in partial, c \in FaultCodes}
      \cup
      \* the I/O error hits before the target directory itself is made
      (IF target.kind = "absent"
         THEN {[entry |-> target, err |-> CopyFailed(IoError(c)), fault |-> c] :
                 c \in FaultCodes}
         ELSE {})

\* the TypeError of path.join for a segment that is not a string
\* (copyTemplate.ts 23)
InvalidArgType ==
  Err(<<"The \"path\" argument must be of type string">>, "ERR_INVALID_ARG_TYPE")

\* Every outcome of copyTemplate(name, target)
CopyOutcomes(target, name) ==
  IF name = InheritedMember
    THEN {[entry |-> target, err |-> InvalidArgType, fault |-> "none"]}
    ELSE
      \* fs.pathExists(templatePath) is false
      {[entry |-> target, err |-> TemplateNotFound, fault |-> "ENOENT"]}
      \cup
      CopyTree(target, TemplateTree(name))

---------------------------------------------------------------------------
(* updateProjectConfig (createProject.ts 130-160) *)

\* the manifest is written back with nothing but the name
SetNameMutant(fields, name) == <<[key |-> "name", value |-> name]>>

\* packageJson.name = projectName: an existing key keeps its place, a new
\* key goes last
SetName(fields, name) ==
  IF \E i \in 1..Len(fields) : fields[i].key = "name"
    THEN [i \in 1..Len(fields) |->
            IF fields[i].key = "name"
              THEN [key |-> "name", value |-> name] ELSE fields[i]]
    ELSE Append(fields, [key |-> "name", value |-> name])

\* the error of fs.readJson(path) that the state of the file decides
readJsonError(files, p) ==
  IF p \notin DOMAIN files THEN IoError("ENOENT")
  ELSE IF files[p].type = "dir" THEN IoError("EISDIR")
  ELSE IF files[p].type # "json" THEN Err(<<"Unexpected token in JSON">>, "none")
  ELSE NoError

\* what a failed write can leave behind: the old content or an empty file
Truncated == TextFile(<<>>)

ReplaceFailed(inner) ==
  Err(<<"Failed to replace placeholders in ", "README.md", ": ">> \o inner.msg, "none")

\* the result of content.replace is dropped
replacePlaceholdersMutant(content, replacements) == content
\* the text replacePlaceholders writes back (copyTemplate.ts 66-71)
replacePlaceholders(content, replacements) ==
  ApplyReplacements(content, replacements)

\* Every outcome of replacePlaceholders(p, replacements) on `files`
\* (copyTemplate.ts 61-78)
ReplaceOutcomes(files, p, replacements) ==
  IF p \notin DOMAIN files
    THEN {[files |-> files, err |-> ReplaceFailed(IoError("ENOENT")), fault |-> "none"]}
  ELSE IF files[p].type = "dir"
    THEN {[files |-> files, err |-> ReplaceFailed(IoError("EISDIR")), fault |-> "none"]}
  ELSE
    LET old == files[p]
        new == TextFile(replacePlaceholders(old.text, replacements))
    IN {[files |-> [files EXCEPT ![p] = new],
         err |-> NoError, fault |-> "none"]}
       \cup
       \* readFile or writeFile fails
       {[files |-> [files EXCEPT ![p] = left],
         err |-> ReplaceFailed(IoError(c)), fault |-> c] :
           left \in {old, Truncated}, c \in FaultCodes}

\* Every outcome of the README part of updateProjectConfig on `files`
\* (createProject.ts 149-153)
ReadmeOutcomes(files, name) ==
  IF ReadmePath \notin DOMAIN files
    THEN {[files |-> files, err |-> NoError, fault |-> "none"]}
    ELSE ReplaceOutcomes(files, ReadmePath,
                         <<[key |-> PROJECT_NAME, value |-> name]>>)

\* Every outcome of updateProjectConfig(projectPath, projectName) on the
\* project directory `entry`
ConfigOutcomes(entry, name) ==
  LET files == entry.files
      e == readJsonError(files, PackageJsonPath)
  IN
  IF e # NoError
    THEN {[entry |-> entry, err |-> e, fault |-> "none"]}
    ELSE
      LET old == files[PackageJsonPath]
          new == JsonFile(SetName(old.fields, name))
          written == [files EXCEPT ![PackageJsonPath] = new]
      IN
      \* readJson or writeJson fails
      {[entry |-> Dir([files EXCEPT ![PackageJsonPath] = left]),
        err |-> IoError(c), fault |-> c] :
          left \in {old, Truncated}, c \in FaultCodes}
      \cup
      {[entry |-> Dir(r.files), err |-> r.err, fault |-> r.fault] :
          r \in ReadmeOutcomes(written, name)}

---------------------------------------------------------------------------
(* createProjectDirectory (createProject.ts 65-90) *)

Cwd == <<"/","w">>

\* path.resolve(process.cwd(), projectName) for a name without separators
Resolve(name) == Join(Cwd, name)

NoPath == <<>>

NotEmptyError ==
  Err(<<"Directory ", " already exists and is not empty. ",
        "Please choose a different name or remove the existing directory.">>, "none")

\* a mkdir that replaces whatever is at the path
ensureDirMutant(d, p) == [d EXCEPT ![p] = Dir(NoFiles)]
\* fs.ensureDir: makes the directory when the path is missing and leaves
\* an existing directory as it is
ensureDir(d, p) ==
  IF d[p].kind = "absent" THEN [d EXCEPT ![p] = Dir(NoFiles)] ELSE d

\* a resolver that empties whatever it finds instead of checking it
createProjectDirectoryMutant(d, name, mkdirFault) ==
  [disk |-> [d EXCEPT ![Resolve(name)] = Dir(NoFiles)],
   path |-> Resolve(name), err |-> NoError]

\* The outcome of createProjectDirectory(name) on disk d: the disk
\* afterwards, the path returned (NoPath when it throws) and the error.
\* mkdirFault is the I/O error ensureDir meets, "none" when it meets none.
createProjectDirectory(d, name, mkdirFault) ==
  LET p == Resolve(name) IN
  IF pathExists(d, p)
    THEN IF ~isDirEmpty(d, p)
           THEN [disk |-> d, path |-> NoPath, err |-> NotEmptyError]
           ELSE [disk |-> d, path |-> p, err |-> NoError]
    ELSE IF mkdirFault # "none"
           THEN [disk |-> d, path |-> NoPath, err |-> IoError(mkdirFault)]
           ELSE [disk |-> ensureDir(d, p), path |-> p, err |-> NoError]

---------------------------------------------------------------------------
(* Inputs of a run *)

MyApi == <<"m","y","-","a","p","i">>
Svc_2 == <<"S","v","c","_","2">>
NodeModules == <<"n","o","d","e","_","m","o","d","u","l","e","s">>
BadName == <<"m","y"," ","a","p","i">>

\* names the validator accepts, and names it rejects: a reserved name and
\* a name with a character outside the allowed set
AcceptedNames == {MyApi, Svc_2}
RejectedNames == {NodeModules, BadName}

Names == AcceptedNames \cup RejectedNames

InstallValues == {"true", "false"}
GitValues == {"unset", "true"}
VerboseValues == {"unset", "true"}
TemplateValues == {"full"}

Options == [install : InstallValues, git : GitValues,
            verbose : VerboseValues, template : TemplateValues]

DefaultOptions ==
  [install |-> "true", git |-> "unset", verbose |-> "unset", template |-> "full"]

\* a test that takes every value of the flag, unset included, as set
TruthyMutant(v) == TRUE
\* if (options.git), if (verbose): the flag is set
Truthy(v) == v = "true"

ProjectPaths == {Resolve(n) : n \in Names}

Notes == NotesPath :> TextFile(<<"n">>)

\* what can be at a project path before the tool ever ran
InitialEntries == {Absent, RegularFile, Dir(NoFiles), Dir(Notes)}

---------------------------------------------------------------------------
(* createProject (createProject.ts 261-317) and the CLI action *)

\* the step the try block goes to after `step` returned
NextStep(step, opts) ==
  CASE step = "validate" -> "dir"
    [] step = "dir" -> "copy"
    [] step = "copy" -> "config"
    [] step = "config" ->
         IF opts.install # "false" THEN "install"
         ELSE IF Truthy(opts.git) THEN "git" ELSE "returned"
    [] step = "install" -> IF Truthy(opts.git) THEN "git" ELSE "returned"
    [] step = "git" -> "returned"

\* an awaited step that throws leaves the try block for the catch block
ContinueMutant(step, err, opts) == NextStep(step, opts)
Continue(step, err, opts) ==
  IF err # NoError THEN "catch" ELSE NextStep(step, opts)

Finish(step, err) ==
  /\ pc' = Continue(step, err, options)
  /\ error' = err
  /\ failedAt' = IF err # NoError THEN step ELSE failedAt

Met(f) == fault' = IF f # "none" THEN f ELSE fault

NoPrev == [name |-> <<>>, failedAt |-> "none"]

Init ==
  \* a path no valid name resolves to starts absent
  /\ disk \in {d \in [ProjectPaths -> InitialEntries] :
                 \A n \in RejectedNames : d[Resolve(n)] = Absent}
  /\ pc = "idle"
  /\ projectName = <<>>
  /\ options = DefaultOptions
  /\ projectPath = NoPath
  /\ steps = <<>>
  /\ spawned = <<>>
  /\ warnings = <<>>
  /\ error = NoError
  /\ failedAt = "none"
  /\ exitCode = -1
  /\ runs = 0
  /\ prev = NoPrev
  /\ start = Absent
  /\ fault = "none"

\* program.action is entered (bootstrap.js 58-76)
CliAction ==
  /\ pc \in {"idle", "exited"}
  /\ runs < MaxRuns
  /\ \E name \in Names, opts \in Options :
       /\ projectName' = name
       /\ options' = opts
       /\ start' = disk[Resolve(name)]
  /\ prev' = IF pc = "exited"
               THEN [name |-> projectName, failedAt |-> failedAt] ELSE prev
  /\ runs' = runs + 1
  /\ pc' = "validate"
  /\ projectPath' = NoPath
  /\ steps' = <<>>
  /\ spawned' = <<>>
  /\ warnings' = <<>>
  /\ error' = NoError
  /\ failedAt' = "none"
  /\ exitCode' = -1
  /\ fault' = "none"
  /\ UNCHANGED disk

\* Step 1 (createProject.ts 263-267)
ValidateStep ==
  /\ pc = "validate"
  /\ steps' = Append(steps, "validate")
  /\ Finish("validate", validateProjectName(projectName))
  /\ UNCHANGED <<disk, projectName, options, projectPath, spawned, warnings,
                 exitCode, runs, prev, start, fault>>

\* Step 2 (createProject.ts 269-273)
CreateDirectoryStep ==
  /\ pc = "dir"
  /\ steps' = Append(steps, "dir")
  /\ \E mkdirFault \in {"none"} \cup FaultCodes :
       LET r == createProjectDirectory(disk, projectName, mkdirFault) IN
       \* the fault is met only when ensureDir runs
       /\ mkdirFault # "none" => r.err = IoError(mkdirFault)
       /\ disk' = r.disk
       /\ projectPath' = r.path
       /\ Met(mkdirFault)
       /\ Finish("dir", r.err)
  /\ UNCHANGED <<projectName, options, spawned, warnings, exitCode,
                 runs, prev, start>>

\* Step 3 (createProject.ts 275-278, copyTemplateFiles 99-120)
CopyTemplateStep ==
  /\ pc = "copy"
  /\ steps' = Append(steps, "copy")
  /\ \E o \in CopyOutcomes(disk[projectPath], templateName(options.template)) :
       /\ disk' = [disk EXCEPT ![projectPath] = o.entry]
       /\ Met(o.fault)
       /\ warnings' = IF o.err # NoError
                        THEN Append(warnings, "Failed to copy template files")
                        ELSE warnings
       /\ Finish("copy", o.err)
  /\ UNCHANGED <<projectName, options, projectPath, spawned, exitCode,
                 runs, prev, start>>

\* Step 4 (createProject.ts 280-283)
UpdateConfigStep ==
  /\ pc = "config"
  /\ steps' = Append(steps, "config")
  /\ \E o \in ConfigOutcomes(disk[projectPath], projectName) :
       /\ disk' = [disk EXCEPT ![projectPath] = o.entry]
       /\ Met(o.fault)
       /\ warnings' = IF o.err # NoError
                        THEN Append(warnings, "Failed to configure project")
                        ELSE warnings
       /\ Finish("config", o.err)
  /\ UNCHANGED <<projectName, options, projectPath, spawned, exitCode,
                 runs, prev, start>>

---------------------------------------------------------------------------
(* runCommand and commandExists (runCommand.ts 5-55) *)

platform == "linux"

\* commandExists probes with `which` (`where` on win32)
checkCommand == IF platform = "win32" THEN "where" ELSE "which"

Spawn(command, args, ok) == [command |-> command, args |-> args, ok |-> ok]

CommandFailed(command) ==
  Err(<<"Command failed with exit code ", "1", ": ", command>>, "none")

\* what installDependencies and initializeGit do when commandExists answered
\* false (createProject.ts 179-183, 220-223): they warn and return
MissingToolMutant(verbose) ==
  IF Truthy(verbose) THEN Err(<<"command not found">>, "none") ELSE NoError
MissingTool(verbose) == NoError

\* the catch blocks of installDependencies and initializeGit
\* (createProject.ts 194-201, 245-251): rethrow only under verbose
OptionalStepErrorMutant(verbose, err) == NoError
OptionalStepError(verbose, err) == IF Truthy(verbose) THEN err ELSE NoError

\* Step 5 (createProject.ts 285-290, installDependencies 169-202).  What
\* the child processes themselves write is outside the tool and not modelled.
InstallStep ==
  /\ pc = "install"
  /\ steps' = Append(steps, "install")
  /\ IF options.install = "false"
       THEN /\ warnings' = Append(warnings, "Skipping dependency installation (--no-install flag)")
            /\ spawned' = spawned
            /\ Finish("install", NoError)
       ELSE \E hasNpm \in BOOLEAN :
              LET probe == Spawn(checkCommand, <<"npm">>, hasNpm) IN
              IF ~hasNpm
                THEN /\ spawned' = Append(spawned, probe)
                     /\ warnings' = Append(warnings, "npm not found. Skipping dependency installation.")
                     /\ Finish("install", MissingTool(options.verbose))
                ELSE \E ok \in BOOLEAN :
                       /\ spawned' = spawned \o <<probe, Spawn("npm", <<"install">>, ok)>>
                       /\ warnings' =
                            IF ok THEN warnings
                            ELSE warnings \o
                                 <<"Failed to install dependencies",
                                   "You can install dependencies manually by running: npm install">>
                       /\ Finish("install",
                            IF ok THEN NoError
                            ELSE OptionalStepError(options.verbose, CommandFailed("npm")))
  /\ UNCHANGED <<disk, projectName, options, projectPath, exitCode,
                 runs, prev, start, fault>>

GitCommands ==
  << <<"init">>, <<"add", ".">>, <<"commit", "-m", "Initial commit from nodejs-fs">> >>

\* a sequence that goes on after a failed command
GitRunMutant(n) ==
  [i \in 1..Len(GitCommands) |-> Spawn("git", GitCommands[i], i <= n)]
\* the git commands run when the first n succeed: the next one, if any, fails
GitRun(n) ==
  [i \in 1..(IF n < Len(GitCommands) THEN n + 1 ELSE n) |->
     Spawn("git", GitCommands[i], i <= n)]

\* Step 6 (createProject.ts 292-297, initializeGit 211-252)
GitStep ==
  /\ pc = "git"
  /\ steps' = Append(steps, "git")
  /\ IF ~Truthy(options.git)
       THEN /\ UNCHANGED <<spawned, warnings>>
            /\ Finish("git", NoError)
       ELSE \E hasGit \in BOOLEAN :
              LET probe == Spawn(checkCommand, <<"git">>, hasGit) IN
              IF ~hasGit
                THEN /\ spawned' = Append(spawned, probe)
                     /\ warnings' = Append(warnings, "git not found. Skipping git initialization.")
                     /\ Finish("git", MissingTool(options.verbose))
                ELSE \E n \in 0..Len(GitCommands) :
                       /\ spawned' = spawned \o <<probe>> \o GitRun(n)
                       /\ warnings' =
                            IF n = Len(GitCommands) THEN warnings
                            ELSE Append(warnings, "Failed to initialize git repository")
                       /\ Finish("git",
                            IF n = Len(GitCommands) THEN NoError
                            ELSE OptionalStepError(options.verbose, CommandFailed("git")))
  /\ UNCHANGED <<disk, projectName, options, projectPath, exitCode,
                 runs, prev, start, fault>>

PermissionDenied ==
  Err(<<"Permission denied. Try running with elevated privileges.">>, "none")
OutOfSpace == Err(<<"Not enough disk space available.">>, "none")

\* the error createProject's catch block throws for the error it caught
Enhance(e) ==
  IF e.code = "EACCES" THEN PermissionDenied
  ELSE IF e.code = "ENOSPC" THEN OutOfSpace
  ELSE e

\* a catch block that would undo the run: the project directory is removed
CreateProjectCatchMutant ==
  /\ pc = "catch"
  /\ error' = Enhance(error)
  /\ pc' = "thrown"
  /\ disk' = [disk EXCEPT ![Resolve(projectName)] = Absent]
  /\ UNCHANGED <<projectName, options, projectPath, steps, spawned, warnings,
                 failedAt, exitCode, runs, prev, start, fault>>

\* the catch block of createProject (createProject.ts 301-316)
CreateProjectCatch ==
  /\ pc = "catch"
  /\ error' = Enhance(error)
  /\ pc' = "thrown"
  /\ UNCHANGED <<disk, projectName, options, projectPath, steps, spawned,
                 warnings, failedAt, exitCode, runs, prev, start, fault>>

\* a CLI action whose catch block only prints the error
CliExitMutant ==
  /\ pc \in {"returned", "thrown"}
  /\ exitCode' = 0
  /\ pc' = "exited"
  /\ UNCHANGED <<disk, projectName, options, projectPath, steps, spawned,
                 warnings, error, failedAt, runs, prev, start, fault>>

\* the CLI action after createProject settled (bootstrap.js 78-115):
\* process.exit(1) in its catch block, a normal end (status 0) otherwise
CliExit ==
  /\ pc \in {"returned", "thrown"}
  /\ exitCode' = IF pc = "thrown" THEN 1 ELSE 0
  /\ pc' = "exited"
  /\ UNCHANGED <<disk, projectName, options, projectPath, steps, spawned,
                 warnings, error, failedAt, runs, prev, start, fault>>

Next ==
  \/ CliAction
  \/ ValidateStep
  \/ CreateDirectoryStep
  \/ CopyTemplateStep
  \/ UpdateConfigStep
  \/ InstallStep
  \/ GitStep
  \/ CreateProjectCatch
  \/ CliExit

Spec == Init /\ [][Next]_vars

---------------------------------------------------------------------------
(* copyTemplate called directly, any number of times on one target *)

CopyTarget == Resolve(MyApi)

\* a README the user wrote, at a path the template also has
OwnReadme == ReadmePath :> TextFile(<<"m","i","n","e">>)

\* a regular file named src and a directory named README.md: entries of the
\* other kind at paths the template also has
SrcAsFile == SrcPath :> TextFile(<<"s">>)
ReadmeAsDir == ReadmePath :> SubDir

CopyInitialEntries ==
  InitialEntries \cup
  {Dir(OwnReadme), Dir(Notes @@ OwnReadme),
   Dir(SrcAsFile), Dir(OwnReadme @@ SrcAsFile), Dir(ReadmeAsDir)}

InitCopy ==
  /\ \E e \in CopyInitialEntries :
       /\ disk = [p \in ProjectPaths |-> IF p = CopyTarget THEN e ELSE Absent]
       /\ start = e
  /\ pc = "api"
  /\ projectName = <<>>
  /\ options = DefaultOptions
  /\ projectPath = CopyTarget
  /\ steps = <<>>
  /\ spawned = <<>>
  /\ warnings = <<>>
  /\ error = NoError
  /\ failedAt = "none"
  /\ exitCode = -1
  /\ runs = 0
  /\ prev = NoPrev
  /\ fault = "none"

\* await copyTemplate('base-backend', CopyTarget): runs counts the calls,
\* error and fault are those of the last call
CopyTemplateCall ==
  /\ pc = "api"
  /\ runs < MaxCopies
  /\ \E o \in CopyOutcomes(disk[projectPath], "base-backend") :
       /\ disk' = [disk EXCEPT ![projectPath] = o.entry]
       /\ error' = o.err
       /\ fault' = o.fault
  /\ runs' = runs + 1
  /\ steps' = Append(steps, IF error' = NoError THEN "copied" ELSE "failed")
  /\ UNCHANGED <<pc, projectName, options, projectPath, spawned, warnings,
                 failedAt, exitCode, prev, start>>

NextCopy == CopyTemplateCall

SpecCopy == InitCopy /\ [][NextCopy]_vars

---------------------------------------------------------------------------
(* copyTemplate called on a fresh target, for any template tree *)

\* path.join(__dirname, '..', '..', 'lib', 'templates', templateName)
TemplatePath(name) == <<"/", "pkg", "/", "lib", "/", "templates", "/", name>>

GithubPath == <<".","g","i","t","h","u","b">>
GithubXPath == <<".","g","i","t","h","u","b","/","x">>
BuilderJsPath == <<"b","u","i","l","d","e","r",".","j","s">>
DistancePath == <<"s","r","c","/","d","i","s","t","a","n","c","e",".","j","s">>
DistPath == <<"d","i","s","t">>
DistFilePath == <<"d","i","s","t","/","a",".","j","s">>
DebugLogPath == <<"d","e","b","u","g",".","l","o","g">>

\* the entries a template tree is made of
TreePool ==
  (GitignorePath :> TextFile(<<".","e","n","v">>)) @@
  (GithubPath :> SubDir) @@
  (GithubXPath :> TextFile(<<"x">>)) @@
  (BuilderJsPath :> TextFile(<<"b">>)) @@
  (SrcPath :> SubDir) @@
  (IndexJsPath :> TemplateIndexJs) @@
  (DistancePath :> TextFile(<<"d">>)) @@
  (DistPath :> SubDir) @@
  (DistFilePath :> TextFile(<<"a">>)) @@
  (DebugLogPath :> TextFile(<<"l","o","g">>))

\* a tree holds the directories above each of its entries
AncestorClosed(S) ==
  \A p \in S : \A a \in DOMAIN TreePool : IsAncestor(a, p) => a \in S

Trees ==
  {[p \in S |-> TreePool[p]] : S \in {T \in SUBSET DOMAIN TreePool : AncestorClosed(T)}}

TemplateRoot == TemplatePath("base-backend")

InitTree ==
  /\ \E t \in {Absent} \cup {Dir(tree) : tree \in Trees}, e \in {Absent, Dir(NoFiles)} :
       /\ disk = [p \in ProjectPaths \cup {TemplateRoot} |->
                    IF p = TemplateRoot THEN t
                    ELSE IF p = CopyTarget THEN e ELSE Absent]
       /\ start = e
  /\ pc = "tree"
  /\ projectName = <<>>
  /\ options = DefaultOptions
  /\ projectPath = CopyTarget
  /\ steps = <<>>
  /\ spawned = <<>>
  /\ warnings = <<>>
  /\ error = NoError
  /\ failedAt = "none"
  /\ exitCode = -1
  /\ runs = 0
  /\ prev = NoPrev
  /\ fault = "none"

\* await copyTemplate('base-backend', CopyTarget) with the template read
\* from the disk (copyTemplate.ts 23-58)
CopyTreeCall ==
  /\ pc = "tree"
  /\ runs < MaxCopies
  /\ IF ~pathExists(disk, TemplateRoot)
       THEN /\ error' = TemplateNotFound
            /\ fault' = "ENOENT"
            /\ disk' = disk
       ELSE \E o \in CopyTree(disk[projectPath], disk[TemplateRoot].files) :
              /\ disk' = [disk EXCEPT ![projectPath] = o.entry]
              /\ error' = o.err
              /\ fault' = o.fault
  /\ runs' = runs + 1
  /\ steps' = Append(steps, IF error' = NoError THEN "copied" ELSE "failed")
  /\ UNCHANGED <<pc, projectName, options, projectPath, spawned, warnings,
                 failedAt, exitCode, prev, start>>

NextTree == CopyTreeCall

SpecTree == InitTree /\ [][NextTree]_vars

---------------------------------------------------------------------------
(* validateProjectName called directly on any name *)

MaxInputLen == 3

\* characters a name is typed with: allowed ones and others
InputChars == {"a", "Z", "7", "-", "_", " ", "."}

Repeat(c, n) == [i \in 1..n |-> c]

\* every spelling of a reserved name of three or four letters, and some of
\* the longer ones
ReservedSpellings ==
  {n \in UNION {[1..k -> {"s","S","r","R","c","C","t","T","e","E"}] : k \in 3..4} :
     [i \in 1..Len(n) |-> ToLowerChar(n[i])] \in reservedNames}
  \cup { <<"t","e","s","t","s">>, <<"T","e","s","t","s">>, <<"T","E","S","T","S">>,
         <<"n","o","d","e","_","m","o","d","u","l","e","s">>,
         <<"N","o","d","e","_","M","o","d","u","l","e","s">>,
         <<"N","O","D","E","_","M","O","D","U","L","E","S">> }

\* names around the length limit, of allowed characters and not
LongNames ==
  {Repeat("a", n) : n \in (MaxNameLength - 1)..(MaxNameLength + 2)}
  \cup {Repeat("Z", MaxNameLength), Repeat("-", MaxNameLength + 1),
        Append(Repeat("a", MaxNameLength), " "),
        Append(Repeat("a", MaxNameLength - 1), ".")}

NameInputs ==
  UNION {[1..n -> InputChars] : n \in 0..MaxInputLen}
  \cup ReservedSpellings \cup LongNames \cup Names

InitNames ==
  /\ projectName \in NameInputs
  /\ disk \in {d \in [ProjectPaths -> {Absent, Dir(Notes)}] :
                 \A n \in Names \ {MyApi} : d[Resolve(n)] = Absent}
  /\ pc = "name"
  /\ options = DefaultOptions
  /\ projectPath = NoPath
  /\ steps = <<>>
  /\ spawned = <<>>
  /\ warnings = <<>>
  /\ error = NoError
  /\ failedAt = "none"
  /\ exitCode = -1
  /\ runs = 0
  /\ prev = NoPrev
  /\ start = Absent
  /\ fault = "none"

\* validateProjectName(projectName), called on its own: error is what it
\* throws, NoError when it returns
ValidateCall ==
  /\ pc = "name"
  /\ error' = validateProjectName(projectName)
  /\ pc' = "checked"
  /\ steps' = Append(steps, "validate")
  /\ runs' = runs + 1
  /\ UNCHANGED <<disk, projectName, options, projectPath, spawned, warnings,
                 failedAt, exitCode, prev, start, fault>>

NextNames == ValidateCall

SpecNames == InitNames /\ [][NextNames]_vars

---------------------------------------------------------------------------
(* replacePlaceholders called directly on a file *)

MaxPieces == 3

KeyA == <<"A">>
KeyB == <<"B">>

\* what a file's text is made of: tokens, near-tokens and plain characters
Pieces ==
  { PlaceholderOf(PROJECT_NAME),
    <<"{","{"," ">> \o PROJECT_NAME \o <<" ","}","}">>,
    <<"{","{","O","T","H","E","R","}","}">>,
    PlaceholderOf(KeyA),
    PlaceholderOf(KeyB),
    <<"a">>,
    <<"{">> }

RECURSIVE Concat(_)
Concat(ss) == IF ss = <<>> THEN <<>> ELSE Head(ss) \o Concat(Tail(ss))

Texts == {Concat(ps) : ps \in UNION {[1..n -> Pieces] : n \in 0..MaxPieces}}

\* replacement values: plain ones, and ones with a "$"
Values ==
  { <<"x">>, <<>>, MyApi, <<"$","&">>, <<"$","$">>, <<"a","$","'">> }

\* the replacements argument, as Object.entries lists it (insertion order)
ReplacementMaps ==
  { <<[key |-> PROJECT_NAME, value |-> v]>> : v \in Values }
  \cup
  { <<[key |-> KeyA, value |-> PlaceholderOf(KeyB)], [key |-> KeyB, value |-> <<"x">>]>>,
    <<[key |-> KeyB, value |-> <<"x">>], [key |-> KeyA, value |-> PlaceholderOf(KeyB)]>> }

InitText ==
  /\ \E text \in Texts :
       /\ disk = [p \in ProjectPaths |->
                    IF p = CopyTarget THEN Dir(ReadmePath :> TextFile(text)) ELSE Absent]
       /\ start = Dir(ReadmePath :> TextFile(text))
  /\ options \in ReplacementMaps
  /\ pc = "text"
  /\ projectName = <<>>
  /\ projectPath = CopyTarget
  /\ steps = <<>>
  /\ spawned = <<>>
  /\ warnings = <<>>
  /\ error = NoError
  /\ failedAt = "none"
  /\ exitCode = -1
  /\ runs = 0
  /\ prev = NoPrev
  /\ fault = "none"

\* await replacePlaceholders(CopyTarget/README.md, options)
ReplaceCall ==
  /\ pc = "text"
  /\ \E o \in ReplaceOutcomes(disk[projectPath].files, ReadmePath, options) :
       /\ disk' = [disk EXCEPT ![projectPath] = Dir(o.files)]
       /\ error' = o.err
       /\ fault' = o.fault
  /\ pc' = "replaced"
  /\ runs' = runs + 1
  /\ steps' = Append(steps, IF error' = NoError THEN "replaced" ELSE "failed")
  /\ UNCHANGED <<projectName, options, projectPath, spawned, warnings,
                 failedAt, exitCode, prev, start>>

NextText == ReplaceCall

SpecText == InitText /\ [][NextText]_vars

---------------------------------------------------------------------------
(* updateProjectConfig called directly on a project directory *)

VersionField == [key |-> "version", value |-> <<"1",".","0",".","0">>]
MainField == [key |-> "main", value |-> IndexJsPath]

\* a manifest field, other than name, that mentions the token
DescriptionField ==
  [key |-> "description", value |-> PlaceholderOf(PROJECT_NAME) \o <<" ","A","P","I">>]

\* what can be at <project>/package.json: nothing, the template's manifest,
\* a manifest without a name, one with a name between other fields, one
\* with the token in its description, and a file that is not JSON
Manifests ==
  { NoFiles,
    PackageJsonPath :> TemplatePackageJson,
    PackageJsonPath :> JsonFile(<<VersionField>>),
    PackageJsonPath :> JsonFile(<<VersionField, [key |-> "name", value |-> <<"o","l","d">>], MainField>>),
    PackageJsonPath :> JsonFile(<<[key |-> "name", value |-> PlaceholderOf(PROJECT_NAME)],
                                  DescriptionField>>),
    PackageJsonPath :> TextFile(<<"{"," ","n","a","m","e">>) }

\* what can be at <project>/README.md: nothing, the template's README, a
\* README without a token, and a directory
Readmes ==
  { NoFiles,
    ReadmePath :> TemplateReadme,
    ReadmePath :> TextFile(<<"h","i">>),
    ReadmePath :> SubDir }

\* the other entries of the project directory; index.js mentions the token
OtherFiles ==
  { NoFiles,
    Notes,
    (SrcPath :> SubDir) @@ (IndexJsPath :> TextFile(PlaceholderOf(PROJECT_NAME))),
    Notes @@ (SrcPath :> SubDir) @@ (IndexJsPath :> TextFile(PlaceholderOf(PROJECT_NAME))) }

ConfigDirs == {Dir(m @@ r @@ o) : m \in Manifests, r \in Readmes, o \in OtherFiles}

InitConfig ==
  /\ \E name \in AcceptedNames, e \in ConfigDirs :
       /\ projectName = name
       /\ projectPath = Resolve(name)
       /\ disk = [p \in ProjectPaths |-> IF p = Resolve(name) THEN e ELSE Absent]
       /\ start = e
  /\ pc = "project"
  /\ options = DefaultOptions
  /\ steps = <<>>
  /\ spawned = <<>>
  /\ warnings = <<>>
  /\ error = NoError
  /\ failedAt = "none"
  /\ exitCode = -1
  /\ runs = 0
  /\ prev = NoPrev
  /\ fault = "none"

\* await updateProjectConfig(projectPath, projectName, options)
ConfigCall ==
  /\ pc = "project"
  /\ \E o \in ConfigOutcomes(disk[projectPath], projectName) :
       /\ disk' = [disk EXCEPT ![projectPath] = o.entry]
       /\ error' = o.err
       /\ fault' = o.fault
       /\ warnings' = IF o.err # NoError
                        THEN Append(warnings, "Failed to configure project")
                        ELSE warnings
  /\ pc' = "configured"
  /\ runs' = runs + 1
  /\ steps' = Append(steps, "config")
  /\ UNCHANGED <<projectName, options, projectPath, spawned, failedAt,
                 exitCode, prev, start>>

NextConfig == ConfigCall

SpecConfig == InitConfig /\ [][NextConfig]_vars

---------------------------------------------------------------------------
(* Properties *)

Mandatory == <<"validate", "dir", "copy", "config">>

\* the step sequences a run can have started
StepOrders ==
  {SubSeq(Mandatory, 1, k) : k \in 0..Len(Mandatory)} \cup
  {Mandatory \o o : o \in {<<"install">>, <<"git">>, <<"install", "git">>}}

\* the steps that have returned when createProject stands at position p
StepsBefore(p) ==
  CASE p = "validate" -> {<<>>}
    [] p = "dir" -> {<<"validate">>}
    [] p = "copy" -> {<<"validate", "dir">>}
    [] p = "config" -> {<<"validate", "dir", "copy">>}
    [] p = "install" -> {Mandatory}
    [] p = "git" -> {Mandatory, Mandatory \o <<"install">>}
    [] OTHER -> StepOrders

StepNames == {"validate", "dir", "copy", "config", "install", "git"}

Last(s) == s[Len(s)]

NpmRan == \E i \in 1..Len(spawned) : spawned[i].command = "npm"
GitRan == \E i \in 1..Len(spawned) : spawned[i].command = "git"
NpmFailed ==
  \E i \in 1..Len(spawned) : spawned[i].command = "npm" /\ ~spawned[i].ok
GitFailed ==
  \E i \in 1..Len(spawned) : spawned[i].command = "git" /\ ~spawned[i].ok
NpmUnavailable ==
  \E i \in 1..Len(spawned) : spawned[i] = Spawn(checkCommand, <<"npm">>, FALSE)
GitUnavailable ==
  \E i \in 1..Len(spawned) : spawned[i] = Spawn(checkCommand, <<"git">>, FALSE)

Ended == {"catch", "thrown", "exited"}

\* C1: the steps of a run start in the order validate, directory, copy,
\* configure, (install), (git); a step is about to start only when every
\* step before it has returned without an error; and once validate,
\* directory, copy or configure has failed, the run ends in failure with no
\* later step started and no process spawned.
C1_StepsInOrder ==
  /\ steps \in StepOrders
  /\ pc \in StepNames =>
       /\ steps \in StepsBefore(pc)
       /\ failedAt = "none"
       /\ error = NoError
  /\ failedAt \in Range(Mandatory) =>
       /\ steps # <<>>
       /\ Last(steps) = failedAt
       /\ pc \in Ended
       /\ pc = "exited" => exitCode = 1
       /\ spawned = <<>>

C1_Witness ==
  /\ pc = "exited"
  /\ failedAt = "copy"
  /\ steps = <<"validate", "dir", "copy">>
  /\ options.install = "true"
  /\ Truthy(options.git)

\* a run repeated with the same name after a copy or configure failure that
\* left entries in the project directory
RerunAfterPartial ==
  /\ runs >= 2
  /\ pc \notin {"validate", "dir"}
  /\ prev.name = projectName
  /\ prev.failedAt \in {"copy", "config"}
  /\ start.kind = "dir"
  /\ readdir(start) # {}

C3_OptionalStepFailure ==
  /\ (NpmFailed \/ GitFailed) /\ ~Truthy(options.verbose) =>
       /\ failedAt = "none"
       /\ error = NoError
       /\ projectPath = Resolve(projectName)
       /\ pc \in {"git", "returned", "exited"}
       /\ pc = "exited" => exitCode = 0
       /\ NpmFailed => "Failed to install dependencies" \in Range(warnings)
       /\ GitFailed => "Failed to initialize git repository" \in Range(warnings)
       /\ NpmFailed /\ Truthy(options.git) => pc = "git" \/ Last(steps) = "git"
  /\ NpmFailed /\ Truthy(options.verbose) =>
       /\ failedAt = "install"
       /\ error = CommandFailed("npm")
       /\ Last(steps) = "install"
       /\ ~GitRan
       /\ pc \in Ended
       /\ pc = "exited" => exitCode = 1
  /\ GitFailed /\ Truthy(options.verbose) =>
       /\ failedAt = "git"
       /\ error = CommandFailed("git")
       /\ pc \in Ended
       /\ pc = "exited" => exitCode = 1

C3_Witness ==
  /\ pc = "exited"
  /\ NpmFailed
  /\ Truthy(options.verbose)
  /\ Truthy(options.git)
  /\ exitCode = 1

\* C4: a run whose name the validator rejects never changes the disk: it
\* stops after the validate step, no path is resolved, and the process exits
\* with status 1.
C4_RejectedName ==
  [][ (projectName' \in RejectedNames /\ pc' \notin {"idle", "api"}) =>
        /\ disk' = disk
        /\ projectPath' = NoPath
        /\ pc' \in {"validate"} \cup Ended
        /\ pc' \in Ended => steps' = <<"validate">>
        /\ pc' = "exited" => exitCode' = 1 ]_vars

C4_Witness ==
  /\ pc = "exited"
  /\ projectName = NodeModules
  /\ exitCode = 1
  /\ disk[Resolve(NodeModules)] = Absent

NpmNotFound == "npm not found. Skipping dependency installation."
GitNotFound == "git not found. Skipping git initialization."

\* C5 as claimed: whenever npm is not available the run exits with status 0.
C5_AlwaysSucceeds == (pc = "exited" /\ NpmUnavailable) => exitCode = 0

\* C5, amended: when the probe for npm (for git) fails, under every value of
\* verbose the step only warns, spawns no npm (git) command, leaves the disk
\* as it was and returns, so createProject goes on to the next step; the run
\* exits 0 unless a requested git step then fails with verbose set, and when
\* git is the missing tool the run always exits 0.
C5_UnavailableTool ==
  [][ /\ (pc = "install" /\ NpmUnavailable') =>
           /\ disk' = disk
           /\ ~NpmRan'
           /\ NpmNotFound \in Range(warnings')
           /\ error' = NoError
           /\ failedAt' = "none"
           /\ pc' = IF Truthy(options.git) THEN "git" ELSE "returned"
      /\ (pc = "git" /\ GitUnavailable') =>
           /\ disk' = disk
           /\ ~GitRan'
           /\ GitNotFound \in Range(warnings')
           /\ error' = NoError
           /\ failedAt' = "none"
           /\ pc' = "returned"
      /\ (pc' = "exited" /\ NpmUnavailable'
            /\ ~(GitFailed' /\ Truthy(options'.verbose))) => exitCode' = 0
      /\ (pc' = "exited" /\ GitUnavailable') => exitCode' = 0 ]_vars

C5_Witness ==
  /\ pc = "exited"
  /\ NpmUnavailable
  /\ GitUnavailable
  /\ Truthy(options.verbose)
  /\ exitCode = 0
  /\ disk[projectPath].files[PackageJsonPath].fields[1].value = projectName

\* C6: from the moment a step has failed, through createProject's catch block
\* and until the process has exited, the disk is not changed: nothing the
\* run created or rewrote before the failure is deleted or rewritten.
C6_NoRollback == [][ (pc \in {"catch", "thrown"}) => (disk' = disk) ]_vars

C6_Witness ==
  /\ pc = "thrown"
  /\ failedAt = "config"
  /\ disk[projectPath].files[PackageJsonPath] =
       JsonFile(SetName(TemplatePackageJson.fields, projectName))
  /\ IndexJsPath \in DOMAIN disk[projectPath].files

NameField(file) ==
  LET i == CHOOSE i \in 1..Len(file.fields) : file.fields[i].key = "name"
  IN file.fields[i].value

\* the text holds a {{...}} token: "{{", then at least one character, then "}}"
HasToken(text) ==
  \E i, j \in 1..Len(text) :
    /\ j >= i + 3
    /\ j + 1 <= Len(text)
    /\ text[i] = "{" /\ text[i + 1] = "{"
    /\ text[j] = "}" /\ text[j + 1] = "}"

\* C7: a finished run with an accepted name N, install=false and git unset,
\* started where N did not exist and meeting no I/O fault, has exit status 0,
\* spawned no process, wrote N/package.json with name = N and left no {{...}}
\* token in N/README.md.
C7_Scaffold ==
  ( /\ pc = "exited"
    /\ projectName \in AcceptedNames
    /\ options.install = "false"
    /\ ~Truthy(options.git)
    /\ start = Absent
    /\ fault = "none" ) =>
      /\ exitCode = 0
      /\ spawned = <<>>
      /\ projectPath = Resolve(projectName)
      /\ disk[projectPath].kind = "dir"
      /\ {PackageJsonPath, ReadmePath} \subseteq DOMAIN disk[projectPath].files
      /\ NameField(disk[projectPath].files[PackageJsonPath]) = projectName
      /\ ~HasToken(disk[projectPath].files[ReadmePath].text)

C7_Witness ==
  /\ pc = "exited"
  /\ projectName = Svc_2
  /\ options.install = "false"
  /\ ~Truthy(options.git)
  /\ start = Absent
  /\ fault = "none"
  /\ exitCode = 0

C9_DirectoryResolver ==
  [][ pc = "dir" =>
        LET p == Cwd \o <<"/">> \o projectName IN
        /\ disk[p] = Dir(NoFiles) =>
             /\ projectPath' = p
             /\ disk' = disk
             /\ pc' = "copy"
        /\ (disk[p] = Absent /\ fault' = "none") =>
             /\ projectPath' = p
             /\ disk' = [disk EXCEPT ![p] = Dir(NoFiles)]
             /\ pc' = "copy"
        /\ \A q \in ProjectPaths : disk[q] # Absent => disk'[q] = disk[q] ]_vars

C9_Witness ==
  /\ pc = "copy"
  /\ start = Dir(NoFiles)
  /\ projectPath = Resolve(projectName)
  /\ disk[projectPath] = Dir(NoFiles)

Fresh(e) == e \in {Absent, Dir(NoFiles)}

\* C10: after a first copyTemplate that succeeded on a fresh target, a second
\* copyTemplate that meets no I/O fault raises no error and leaves the set of
\* files under the target and every file's content as they were.
C10_CopyIdempotent ==
  [][ ( /\ pc = "api"
        /\ runs = 1
        /\ Fresh(start)
        /\ error = NoError
        /\ fault' = "none" ) =>
          /\ error' = NoError
          /\ disk' = disk ]_vars

C10_Witness ==
  /\ pc = "api"
  /\ runs = 2
  /\ start = Absent
  /\ steps = <<"copied", "copied">>
  /\ DOMAIN disk[CopyTarget].files = CopyPlan(BaseBackend)

\* a file stands where the template has a directory, or a directory where
\* the template has a file
KindMismatch(files) ==
  \E p \in DOMAIN files \cap CopyPlan(BaseBackend) :
    (files[p].type = "dir") # (BaseBackend[p].type = "dir")

\* C11 as claimed: a copyTemplate call that finds the template and meets no
\* I/O fault leaves every file that was under the target as it was and
\* succeeds, whatever already exists at its destination paths.
C11_AdditiveOnly ==
  [][ (pc = "api" /\ disk[CopyTarget].kind = "dir" /\ fault' = "none") =>
        /\ \A p \in DOMAIN disk[CopyTarget].files :
             disk'[CopyTarget].files[p] = disk[CopyTarget].files[p]
        /\ error' = NoError ]_vars

\* C11, amended: every copyTemplate call, failing ones included, leaves every
\* entry that was under the target as it was; when it meets no I/O fault and
\* every existing entry at a template path is of the template entry's kind
\* (file for file, directory for directory) it succeeds and adds exactly the
\* missing template entries; when an existing entry is of the other kind the
\* call fails with fs.copy's "Cannot overwrite" error.
C11_SkipsExistingFiles ==
  [][ (pc = "api" /\ disk[CopyTarget].kind = "dir") =>
        LET old == disk[CopyTarget].files
            new == disk'[CopyTarget].files
        IN
        /\ \A p \in DOMAIN old : p \in DOMAIN new /\ new[p] = old[p]
        /\ (fault' = "none" /\ ~KindMismatch(old)) =>
             /\ error' = NoError
             /\ DOMAIN new = DOMAIN old \cup CopyPlan(BaseBackend)
        /\ (fault' = "none" /\ KindMismatch(old)) =>
             error' \in {CopyFailed(NotADirectory), CopyFailed(IsADirectory)} ]_vars

C11_Witness ==
  /\ pc = "api"
  /\ runs = 1
  /\ start = Dir(Notes @@ OwnReadme)
  /\ error = NoError
  /\ disk[CopyTarget].files[ReadmePath] = TextFile(<<"m","i","n","e">>)
  /\ disk[CopyTarget].files[PackageJsonPath] = TemplatePackageJson

RECURSIVE Segments(_)
\* the segments of a relative path: its parts between separators
Segments(p) ==
  IF "/" \notin Range(p) THEN <<p>>
  ELSE LET i == CHOOSE i \in 1..Len(p) :
                  p[i] = "/" /\ \A j \in 1..(i - 1) : p[j] # "/"
       IN <<SubSeq(p, 1, i - 1)>> \o Segments(SubSeq(p, i + 1, Len(p)))

SkippedSegments ==
  { <<"n","o","d","e","_","m","o","d","u","l","e","s">>,
    <<".","g","i","t">>,
    <<"l","o","g","s">>,
    <<"d","i","s","t">>,
    <<"b","u","i","l","d">> }

\* no segment of p is one of the skipped names, and p does not end with .log
Unskipped(p) ==
  /\ Range(Segments(p)) \cap SkippedSegments = {}
  /\ ~(Len(p) >= 4 /\ SubSeq(p, Len(p) - 3, Len(p)) = <<".","l","o","g">>)

\* a copyTemplate call has just completed, on a target that started fresh
CopiedFresh ==
  /\ pc = "tree"
  /\ Fresh(start)
  /\ steps # <<>>
  /\ Last(steps) = "copied"

\* C12: after copyTemplate completed on a fresh target, every template entry
\* whose path has no segment equal to node_modules, .git, logs, dist or build
\* and does not end with .log is under the target at the same relative path,
\* with the same content.
C12_UnskippedCopied ==
  CopiedFresh =>
    \A p \in DOMAIN disk[TemplateRoot].files :
      Unskipped(p) =>
        /\ p \in DOMAIN disk[CopyTarget].files
        /\ disk[CopyTarget].files[p] = disk[TemplateRoot].files[p]

\* C13: after copyTemplate completed on a fresh target, no path under the
\* target has a node_modules, .git, logs, dist or build segment and none ends
\* with .log, whatever the template tree holds.
C13_NoArtifacts ==
  CopiedFresh => \A p \in DOMAIN disk[CopyTarget].files : Unskipped(p)

C13_Witness ==
  /\ CopiedFresh
  /\ {DistPath, DistFilePath, DebugLogPath, IndexJsPath} \subseteq
       DOMAIN disk[TemplateRoot].files
  /\ DOMAIN disk[CopyTarget].files = {SrcPath, IndexJsPath}

AllowedChars ==
  {"a","b","c","d","e","f","g","h","i","j","k","l","m",
   "n","o","p","q","r","s","t","u","v","w","x","y","z",
   "A","B","C","D","E","F","G","H","I","J","K","L","M",
   "N","O","P","Q","R","S","T","U","V","W","X","Y","Z",
   "0","1","2","3","4","5","6","7","8","9","-","_"}

HasBadChar(name) == \E i \in 1..Len(name) : name[i] \notin AllowedChars

InvalidChars ==
  [msg |-> <<"Project name can only contain letters, numbers, hyphens, and underscores">>,
   code |-> "none"]

\* C14: validateProjectName called on a string with at least one character
\* outside letters, digits, hyphen and underscore throws the
\* invalid-characters error, whatever the rest of the string, its length and
\* the state of the disk are, and it changes nothing but its verdict.
C14_InvalidCharacters ==
  [][ (pc = "name" /\ HasBadChar(projectName)) =>
        /\ error' = InvalidChars
        /\ UNCHANGED <<disk, projectName, options, projectPath, spawned,
                       warnings, failedAt, exitCode, prev, start, fault>> ]_vars

C14_Witness ==
  /\ pc = "checked"
  /\ projectName = <<"a", " ", "Z">>
  /\ error = InvalidChars
  /\ disk[Resolve(MyApi)] = Dir(Notes)

\* the name is a reserved name up to the case of its letters
IsReserved(name) ==
  \E r \in reservedNames :
    /\ Len(r) = Len(name)
    /\ \A i \in 1..Len(r) : ToLowerChar(name[i]) = r[i]

Reserved ==
  [msg |-> <<" is a reserved name and cannot be used">>, code |-> "none"]

\* C15: validateProjectName called on node_modules, src, test or tests in any
\* mix of upper and lower case throws the reserved-name error.
C15_ReservedNames ==
  (pc = "checked" /\ IsReserved(projectName)) => error = Reserved

C15_Witness ==
  /\ pc = "checked"
  /\ projectName = <<"N","o","d","e","_","M","o","d","u","l","e","s">>
  /\ error = Reserved

\* C16: validateProjectName throws on the empty name and on every name of
\* 215 characters or more, and returns without an error on every name of
\* allowed characters that is not reserved and has 1 to 214 characters.
C16_LengthBounds ==
  pc = "checked" =>
    /\ Len(projectName) = 0 => error # NoError
    /\ Len(projectName) >= 215 => error # NoError
    /\ ( /\ ~HasBadChar(projectName)
         /\ ~IsReserved(projectName)
         /\ Len(projectName) \in 1..214 ) => error = NoError

C16_Witness ==
  /\ pc = "checked"
  /\ Len(projectName) = 214
  /\ projectName[1] = "a"
  /\ error = NoError

TooLong ==
  [msg |-> <<"Project name must be between 1 and 214 characters">>, code |-> "none"]

\* C17: the three rules give three different errors, applied in the order
\* characters, reserved, length: a name with a character outside the allowed
\* set gets the invalid-characters error, otherwise a reserved name gets the
\* reserved error, otherwise a name whose length is not in 1..214 gets the
\* length error; so the empty name and a name of 215 allowed characters both
\* get the length error.
C17_RuleOrder ==
  pc = "checked" =>
    /\ HasBadChar(projectName) => error = InvalidChars
    /\ (~HasBadChar(projectName) /\ IsReserved(projectName)) => error = Reserved
    /\ ( /\ ~HasBadChar(projectName)
         /\ ~IsReserved(projectName)
         /\ Len(projectName) \notin 1..214 ) => error = TooLong

RECURSIVE Substitute(_, _)
\* text with every token {{key}} of a key of `map` replaced by that key's
\* value, taken as it is, in one scan from left to right; what a value
\* brings in is not looked at again
Substitute(text, map) ==
  IF text = <<>> THEN <<>>
  ELSE IF \E k \in 1..Len(map) :
            LET t == <<"{","{">> \o map[k].key \o <<"}","}">> IN
            Len(t) <= Len(text) /\ SubSeq(text, 1, Len(t)) = t
    THEN LET k == CHOOSE k \in 1..Len(map) :
                    LET t == <<"{","{">> \o map[k].key \o <<"}","}">> IN
                    Len(t) <= Len(text) /\ SubSeq(text, 1, Len(t)) = t
             n == Len(map[k].key) + 4
         IN map[k].value \o Substitute(SubSeq(text, n + 1, Len(text)), map)
    ELSE <<text[1]>> \o Substitute(Tail(text), map)

TextBefore == start.files[ReadmePath].text
TextAfter == disk[CopyTarget].files[ReadmePath].text

Replaced == pc = "replaced" /\ error = NoError

\* C18: after replacePlaceholders returned for a map {PROJECT_NAME: v}, the
\* file's text is the text before with every {{PROJECT_NAME}} replaced by v
\* and everything else, {{ PROJECT_NAME }} and {{OTHER}} included, as it was.
C18_EveryOccurrence ==
  (Replaced /\ Len(options) = 1 /\ options[1].key = PROJECT_NAME) =>
    TextAfter = Substitute(TextBefore, options)

\* C19: after replacePlaceholders returned for a map with the keys A and B,
\* in either order, where the value of A is {{B}}, every {{A}} of the text
\* has become {{B}}, verbatim, and every {{B}} of the text has become the
\* value of B: no value is expanded again.
C19_NoReexpansion ==
  (Replaced /\ Len(options) = 2) => TextAfter = Substitute(TextBefore, options)

NotName(f) == f.key # "name"

\* the manifest is JSON that can be read
Parsable(files) ==
  PackageJsonPath \in DOMAIN files /\ files[PackageJsonPath].type = "json"

\* C20: updateProjectConfig creates and removes nothing and changes no entry
\* other than package.json and README.md at the project root; when
\* package.json is missing or is not JSON it throws and changes nothing;
\* when it returns, the manifest holds name = project name with every other
\* field as before and in the same order, and README.md, when it was there,
\* holds its text with every {{PROJECT_NAME}} replaced by the project name,
\* and is still missing when it was missing.
C20_ConfigFrame ==
  [][ pc = "project" =>
        LET old == disk[projectPath].files
            new == disk'[projectPath].files
        IN
        /\ \A q \in ProjectPaths \ {projectPath} : disk'[q] = disk[q]
        /\ disk'[projectPath].kind = "dir"
        /\ DOMAIN new = DOMAIN old
        /\ \A p \in DOMAIN old \ {PackageJsonPath, ReadmePath} : new[p] = old[p]
        /\ ~Parsable(old) => (error' # NoError /\ new = old)
        /\ error' = NoError =>
             /\ new[PackageJsonPath].type = "json"
             /\ \E i \in 1..Len(new[PackageJsonPath].fields) :
                  new[PackageJsonPath].fields[i] = [key |-> "name", value |-> projectName]
             /\ SelectSeq(new[PackageJsonPath].fields, NotName) =
                  SelectSeq(old[PackageJsonPath].fields, NotName)
             /\ ReadmePath \in DOMAIN old =>
                  new[ReadmePath].text =
                    Substitute(old[ReadmePath].text,
                               <<[key |-> PROJECT_NAME, value |-> projectName]>>)
        /\ (Parsable(old) /\ ReadmePath \notin DOMAIN old /\ fault' = "none") =>
             error' = NoError ]_vars

C20_Witness ==
  /\ pc = "configured"
  /\ error = NoError
  /\ projectName = Svc_2
  /\ start = Dir((PackageJsonPath :>
                    JsonFile(<<VersionField, [key |-> "name", value |-> <<"o","l","d">>],
                               MainField>>))
                 @@ (SrcPath :> SubDir)
                 @@ (IndexJsPath :> TextFile(PlaceholderOf(PROJECT_NAME))))
  /\ disk[projectPath] =
       Dir((PackageJsonPath :>
              JsonFile(<<VersionField, [key |-> "name", value |-> Svc_2], MainField>>))
           @@ (SrcPath :> SubDir)
           @@ (IndexJsPath :> TextFile(PlaceholderOf(PROJECT_NAME))))

\* C21: a run in which a step met a permission error (EACCES) or an
\* out-of-space error (ENOSPC) ends with createProject throwing the guidance
\* message for that error, whichever step met it.
C21_GuidanceMessage ==
  (pc \in {"thrown", "exited"} /\ failedAt # "none") =>
    /\ fault = "EACCES" =>
         error = [msg |-> <<"Permission denied. Try running with elevated privileges.">>,
                  code |-> "none"]
    /\ fault = "ENOSPC" =>
         error = [msg |-> <<"Not enough disk space available.">>, code |-> "none"]

\* C22: a finished run has exit status 1 exactly when createProject threw
\* (a step failed and its error left the catch block), and exit status 0
\* exactly when createProject returned the project path.
C22_ExitStatus ==
  pc = "exited" =>
    /\ exitCode \in {0, 1}
    /\ exitCode = 1 <=> (failedAt # "none" /\ error.msg # <<>>)
    /\ exitCode = 0 <=> (failedAt = "none" /\ error.msg = <<>>
                           /\ projectPath = Cwd \o <<"/">> \o projectName)

C22_Witness ==
  /\ pc = "exited"
  /\ exitCode = 1
  /\ failedAt = "git"
  /\ steps = <<"validate", "dir", "copy", "config", "install", "git">>
  /\ options.verbose = "true"

\* C23: after updateProjectConfig returned, no field of package.json holds
\* the token {{PROJECT_NAME}}.
C23_NoPlaceholderLeft ==
  (pc = "configured" /\ error = NoError) =>
    \A i \in 1..Len(disk[projectPath].files[PackageJsonPath].fields) :
      ~Includes(disk[projectPath].files[PackageJsonPath].fields[i].value,
                <<"{","{","P","R","O","J","E","C","T","_","N","A","M","E","}","}">>)

NpmProbe(ok) == [command |-> "which", args |-> <<"npm">>, ok |-> ok]
GitProbe(ok) == [command |-> "which", args |-> <<"git">>, ok |-> ok]

\* C24: in every state of a run, npm was probed only when install is not
\* false and npm install was spawned only right after its probe succeeded;
\* git was probed only when the git option is set and a git command was
\* spawned only after its probe succeeded; and a run with install=false and
\* git unset has spawned nothing at all.
C24_SpawnOnlyRequested ==
  /\ \A i \in 1..Len(spawned) :
       /\ spawned[i] \in {NpmProbe(TRUE), NpmProbe(FALSE)} => options.install # "false"
       /\ spawned[i] \in {GitProbe(TRUE), GitProbe(FALSE)} => options.git = "true"
       /\ spawned[i].command = "npm" =>
            /\ options.install # "false"
            /\ i > 1
            /\ spawned[i - 1] = NpmProbe(TRUE)
       /\ spawned[i].command = "git" =>
            /\ options.git = "true"
            /\ \E j \in 1..(i - 1) : spawned[j] = GitProbe(TRUE)
            /\ \A j \in 1..Len(spawned) : spawned[j] # GitProbe(FALSE)
  /\ (options.install = "false" /\ options.git # "true") => spawned = <<>>

C24_Witness ==
  /\ pc = "exited"
  /\ options.install = "false"
  /\ options.git = "true"
  /\ Len(spawned) = 4
  /\ spawned[1] = GitProbe(TRUE)
  /\ spawned[4].command = "git"

\* C25: the copy step of a run whose template root is missing throws the
\* 'Template ... not found' error and leaves the disk as it was; when the copy
\* meets an I/O error it throws 'Failed to copy template: ' followed by the
\* message of that error, having copied no more than a part of the template;
\* and a run whose copy step failed ends there: configuration, install and
\* git are not started, nothing is spawned and the exit status is 1.
C25_CopyFailure ==
  [][ /\ pc = "copy" =>
           /\ fault' = "ENOENT" =>
                /\ disk' = disk
                /\ error' = [msg |-> <<"Template ", "base-backend", " not found at ">>,
                             code |-> "none"]
                /\ pc' = "catch"
           /\ fault' \in {"EACCES", "ENOSPC", "EIO"} =>
                /\ error' = [msg |-> <<"Failed to copy template: ", fault'>>,
                             code |-> "none"]
                /\ pc' = "catch"
                /\ DOMAIN disk'[projectPath].files \subseteq
                     {PackageJsonPath, ReadmePath, SrcPath, IndexJsPath}
      /\ failedAt' = "copy" =>
           /\ steps' = <<"validate", "dir", "copy">>
           /\ spawned' = <<>>
           /\ pc' \in {"catch", "thrown", "exited"}
           /\ pc' = "exited" => exitCode' = 1 ]_vars

C25_Witness ==
  /\ pc = "exited"
  /\ failedAt = "copy"
  /\ fault = "EIO"
  /\ exitCode = 1
  /\ DOMAIN disk[Resolve(projectName)].files = {SrcPath, ReadmePath}

----------------------------------------------------------------------------
(* runCommand and commandExists (runCommand.ts 5-55) on their own: one probe,
   the events its child process emits, and the promise they settle.
   Here options is the probe's arguments, failedAt the state of runCommand's
   promise ("none" before the call), error its rejection reason, steps the
   events emitted so far and warnings what commandExists returned. *)

MaxEvents == 3

ProbedCommands == {"npm", "git", "yarn"}

\* the code of a 'close' event, as `${code}` prints it; null after a signal
ExitCodes == {"0", "1", "null"}
SpawnErrors == {"ENOENT", "EACCES"}

Close(code) == [type |-> "close", code |-> code]
SpawnError(e) == [type |-> "error", code |-> e]

Pending == [status |-> "pending", reason |-> NoError]
Resolved == [status |-> "resolved", reason |-> NoError]
Rejected(e) == [status |-> "rejected", reason |-> e]

\* a promise whose last resolve or reject call wins
SettleMutant(promise, outcome) == outcome
\* resolve and reject of new Promise: no effect once the promise is settled
Settle(promise, outcome) ==
  IF promise.status = "pending" THEN outcome ELSE promise

\* child.on('close', ...)
OnClose(promise, code, command, arg) ==
  Settle(promise,
         IF code = "0"
           THEN Resolved
           ELSE Rejected(Err(<<"Command failed with exit code ", code, ": ",
                               command, " ", arg>>, "none")))

\* child.on('error', ...)
OnError(promise, e) ==
  Settle(promise, Rejected(Err(<<"Failed to execute command: ", e>>, "none")))

InitRun ==
  /\ options \in [command : ProbedCommands, verbose : {FALSE}]
  /\ pc = "call"
  /\ failedAt = "none"
  /\ error = NoError
  /\ steps = <<>>
  /\ warnings = <<>>
  /\ disk = [p \in ProjectPaths |-> Absent]
  /\ projectName = <<>>
  /\ projectPath = NoPath
  /\ spawned = <<>>
  /\ exitCode = -1
  /\ runs = 0
  /\ prev = NoPrev
  /\ start = Absent
  /\ fault = "none"

\* commandExists calls runCommand(checkCommand, [command]): the executor
\* spawns the child, attaches the listeners and returns the pending promise
RunCommandCall ==
  /\ pc = "call"
  /\ pc' = "await"
  /\ failedAt' = Pending.status
  /\ error' = Pending.reason
  /\ UNCHANGED <<disk, projectName, options, projectPath, steps, spawned,
                 warnings, exitCode, runs, prev, start, fault>>

\* the child emits 'close' (at most once)
EmitClose ==
  /\ failedAt # "none"
  /\ Len(steps) < MaxEvents
  /\ \A i \in 1..Len(steps) : steps[i].type # "close"
  /\ \E code \in ExitCodes :
       LET p == OnClose([status |-> failedAt, reason |-> error], code,
                        checkCommand, options.command)
       IN /\ steps' = Append(steps, Close(code))
          /\ failedAt' = p.status
          /\ error' = p.reason
  /\ UNCHANGED <<disk, pc, projectName, options, projectPath, spawned,
                 warnings, exitCode, runs, prev, start, fault>>

\* the child emits 'error'
EmitError ==
  /\ failedAt # "none"
  /\ Len(steps) < MaxEvents
  /\ \E e \in SpawnErrors :
       LET p == OnError([status |-> failedAt, reason |-> error], e)
       IN /\ steps' = Append(steps, SpawnError(e))
          /\ failedAt' = p.status
          /\ error' = p.reason
  /\ UNCHANGED <<disk, pc, projectName, options, projectPath, spawned,
                 warnings, exitCode, runs, prev, start, fault>>

\* the await in commandExists continues once the promise is settled:
\* return true after a resolution, the catch returns false after a rejection
CommandExistsReturn ==
  /\ pc = "await"
  /\ failedAt \in {"resolved", "rejected"}
  /\ pc' = "returned"
  /\ warnings' = <<failedAt = "resolved">>
  /\ UNCHANGED <<disk, projectName, options, projectPath, steps, spawned,
                 error, failedAt, exitCode, runs, prev, start, fault>>

NextRun ==
  \/ RunCommandCall
  \/ EmitClose
  \/ EmitError
  \/ CommandExistsReturn

SpecRun == InitRun /\ [][NextRun]_vars

\* the first event alone decides the promise and the probe's answer
FirstEventWins ==
  /\ failedAt = "pending" <=> (pc # "call" /\ steps = <<>>)
  /\ failedAt = "resolved" <=> (steps # <<>> /\ steps[1] = Close("0"))
  /\ failedAt = "rejected" <=> (steps # <<>> /\ steps[1] # Close("0"))
  /\ failedAt = "resolved" => error = NoError
  /\ failedAt = "rejected" =>
       error.msg[1] = IF steps[1].type = "close"
                        THEN "Command failed with exit code "
                        ELSE "Failed to execute command: "
  /\ pc = "returned" =>
       /\ warnings \in {<<TRUE>>, <<FALSE>>}
       /\ warnings[1] = (steps # <<>> /\ steps[1] = Close("0"))

\* a settled promise keeps its state and its reason
StaysSettled ==
  failedAt \in {"resolved", "rejected"} =>
    (failedAt' = failedAt /\ error' = error)

\* C26: the promise of runCommand is pending until the child emits its first
\* event and is settled by that event alone: resolved exactly when the first
\* event is a close with code 0, rejected with 'Command failed with exit code'
\* when it is a close with another or a null code, rejected with 'Failed to
\* execute command' when it is an error; once settled it never changes, so no
\* later close or error turns a rejection into a success or back. commandExists
\* returns a boolean, never an exception: true exactly when the probe resolved.
C26_SettlesOnce == []FirstEventWins /\ [][StaysSettled]_vars

C26_Witness ==
  /\ pc = "returned"
  /\ steps = <<SpawnError("ENOENT"), Close("0")>>
  /\ failedAt = "rejected"
  /\ warnings = <<FALSE>>

\* C27: whenever the directory step has returned a path and the copy is about
\* to begin, that path is a directory with no entries; a path that holds a
\* regular file is never handed to the copy.
C27_CopyBeginsOnEmptyDirectory ==
  pc = "copy" =>
    /\ projectPath # NoPath
    /\ disk[projectPath].kind = "dir"
    /\ readdir(disk[projectPath]) = {}

----------------------------------------------------------------------------
(* Two createProject invocations with the same name in the same working
   directory, interleaved at their awaits, with no I/O error, --no-install
   and no --git.  The disk is shared; pc, projectPath and error hold one
   value per invocation, steps the plan entries each copy has processed and
   warnings the files each copy found present and left alone. *)

Invocations == {1, 2}

PairOptions ==
  [install |-> "false", git |-> "unset", verbose |-> "unset", template |-> "full"]

PairPlan == CopyPlan(TemplateTree(templateName(PairOptions.template)))

InitPair ==
  /\ \E e \in {Absent, Dir(NoFiles), Dir(Notes)} :
       /\ disk = [p \in ProjectPaths |-> IF p = CopyTarget THEN e ELSE Absent]
       /\ start = e
  /\ pc = [i \in Invocations |-> "exists"]
  /\ projectName = MyApi
  /\ options = PairOptions
  /\ projectPath = [i \in Invocations |-> NoPath]
  /\ steps = [i \in Invocations |-> {}]
  /\ warnings = [i \in Invocations |-> {}]
  /\ error = [i \in Invocations |-> NoError]
  /\ spawned = <<>>
  /\ failedAt = "none"
  /\ exitCode = -1
  /\ runs = 0
  /\ prev = NoPrev
  /\ fault = "none"

\* await fs.pathExists(projectPath) (createProject.ts 73)
PairPathExists(i) ==
  /\ pc[i] = "exists"
  /\ pc' = [pc EXCEPT ![i] = IF pathExists(disk, Resolve(projectName))
                               THEN "empty" ELSE "mkdir"]
  /\ UNCHANGED <<disk, projectName, options, projectPath, steps, spawned,
                 warnings, error, failedAt, exitCode, runs, prev, start, fault>>

\* await isDirEmpty(projectPath), then throw or return (createProject.ts 74-83)
PairIsDirEmpty(i) ==
  /\ pc[i] = "empty"
  /\ IF isDirEmpty(disk, Resolve(projectName))
       THEN /\ pc' = [pc EXCEPT ![i] = NextStep("dir", options)]
            /\ projectPath' = [projectPath EXCEPT ![i] = Resolve(projectName)]
            /\ error' = error
       ELSE /\ pc' = [pc EXCEPT ![i] = "thrown"]
            /\ projectPath' = projectPath
            /\ error' = [error EXCEPT ![i] = NotEmptyError]
  /\ UNCHANGED <<disk, projectName, options, steps, spawned, warnings,
                 failedAt, exitCode, runs, prev, start, fault>>

\* await fs.ensureDir(projectPath), then return (createProject.ts 84-89)
PairEnsureDir(i) ==
  /\ pc[i] = "mkdir"
  /\ disk' = ensureDir(disk, Resolve(projectName))
  /\ pc' = [pc EXCEPT ![i] = NextStep("dir", options)]
  /\ projectPath' = [projectPath EXCEPT ![i] = Resolve(projectName)]
  /\ UNCHANGED <<projectName, options, steps, spawned, warnings, error,
                 failedAt, exitCode, runs, prev, start, fault>>

\* fs.copy processes one more entry of its plan, a directory before what it
\* holds (copyTemplate.ts 33-52)
PairCopyEntry(i) ==
  /\ pc[i] = "copy"
  /\ \E p \in PairPlan \ steps[i] :
       LET tree == TemplateTree(templateName(options.template))
           existing == disk[projectPath[i]].files
       IN
       /\ \A a \in PairPlan : IsAncestor(a, p) => a \in steps[i]
       /\ steps' = [steps EXCEPT ![i] = @ \cup {p}]
       /\ IF TypeClash(existing, tree, p)
            THEN /\ error' = [error EXCEPT ![i] =
                                CopyFailed(ClashError(existing, tree, p))]
                 /\ pc' = [pc EXCEPT ![i] = "thrown"]
                 /\ UNCHANGED <<disk, warnings>>
            ELSE /\ disk' = [disk EXCEPT ![projectPath[i]] =
                               Dir(AfterCopy(existing, tree, {p}))]
                 /\ warnings' = [warnings EXCEPT ![i] =
                                   IF p \in DOMAIN existing /\ tree[p].type # "dir"
                                        /\ CopyEntry(existing, tree, p) = existing[p]
                                     THEN @ \cup {p} ELSE @]
                 /\ UNCHANGED <<error, pc>>
  /\ UNCHANGED <<projectName, options, projectPath, spawned, failedAt,
                 exitCode, runs, prev, start, fault>>

\* fs.copy has processed its whole plan and copyTemplate returns
PairCopyDone(i) ==
  /\ pc[i] = "copy"
  /\ steps[i] = PairPlan
  /\ pc' = [pc EXCEPT ![i] = NextStep("copy", options)]
  /\ UNCHANGED <<disk, projectName, options, projectPath, steps, spawned,
                 warnings, error, failedAt, exitCode, runs, prev, start, fault>>

\* await updateProjectConfig(projectPath, projectName); nothing is left to do
\* after it under PairOptions (createProject.ts 280-311)
PairConfig(i) ==
  /\ pc[i] = "config"
  /\ \E o \in ConfigOutcomes(disk[projectPath[i]], projectName) :
       /\ o.fault = "none"
       /\ disk' = [disk EXCEPT ![projectPath[i]] = o.entry]
       /\ error' = [error EXCEPT ![i] = o.err]
       /\ pc' = [pc EXCEPT ![i] = IF o.err # NoError
                                    THEN "thrown" ELSE NextStep("config", options)]
  /\ UNCHANGED <<projectName, options, projectPath, steps, spawned, warnings,
                 failedAt, exitCode, runs, prev, start, fault>>

NextPair ==
  \E i \in Invocations :
    \/ PairPathExists(i)
    \/ PairIsDirEmpty(i)
    \/ PairEnsureDir(i)
    \/ PairCopyEntry(i)
    \/ PairCopyDone(i)
    \/ PairConfig(i)

SpecPair == InitPair /\ [][NextPair]_vars

\* the files of the template's plan
PlanFiles ==
  {p \in PairPlan : TemplateTree(templateName(PairOptions.template))[p].type # "dir"}

\* nothing makes an invocation wait for the other or fail because of it
Unlocked ==
  \A i \in Invocations :
    \* the only error an invocation can end with is the not-empty error
    /\ error[i] # NoError => (error[i] = NotEmptyError /\ pc[i] = "thrown")
    /\ pc[i] = "thrown" => error[i] = NotEmptyError
    \* an invocation that is past the directory step holds the shared path
    /\ pc[i] \in {"copy", "config", "returned"} =>
         (projectPath[i] = CopyTarget /\ disk[CopyTarget].kind = "dir")
    /\ pc[i] = "returned" => steps[i] = PairPlan

\* each step of the directory check looks at the disk as it is at that
\* instant only, and the copy leaves alone every file it finds present
Unsynchronised ==
  \A i \in Invocations :
    LET here == disk[CopyTarget] IN
    /\ (pc[i] = "exists" /\ pc'[i] # "exists") =>
         (pc'[i] = "mkdir" <=> here.kind = "absent")
    /\ (pc[i] = "empty" /\ pc'[i] # "empty") =>
         /\ pc'[i] = "thrown" <=> (here.kind = "dir" /\ readdir(here) # {})
         /\ pc'[i] = "copy" <=> ~(here.kind = "dir" /\ readdir(here) # {})
    \* the directory made since the check is taken as it is, entries included
    /\ (pc[i] = "mkdir" /\ pc'[i] # "mkdir") =>
         /\ pc'[i] = "copy"
         /\ here.kind = "dir" => disk' = disk
    /\ (pc[i] = "copy" /\ steps'[i] # steps[i]) =>
         /\ \A p \in DOMAIN here.files :
              /\ p \in DOMAIN disk'[CopyTarget].files
              /\ disk'[CopyTarget].files[p] = here.files[p]
         /\ error'[i] = NoError
         /\ warnings'[i] \ warnings[i] = (steps'[i] \ steps[i]) \cap
                                          (DOMAIN here.files \cap PlanFiles)

\* C28: two interleaved invocations with the same name and working directory
\* never wait for each other: each step of the directory check decides on
\* the disk as it is at that instant, a directory made since the check is
\* taken as it is, the copy leaves every file it finds present untouched and
\* raises no error for it, and the only error either invocation can end with
\* is the not-empty error of its own check.
C28_NoLocking == []Unlocked /\ [][Unsynchronised]_vars

\* both invocations saw a missing directory, both returned, and the copy of
\* the second one skipped every file, all written by the first
C28_Witness ==
  /\ start = Absent
  /\ \A i \in Invocations : pc[i] = "returned" /\ error[i] = NoError
  /\ warnings[1] = {}
  /\ warnings[2] = PlanFiles
  /\ PlanFiles # {}

\* the git commands spawned in the current run, in the order they started
GitSpawns == SelectSeq(spawned, LAMBDA c : c.command = "git")

\* C29: the git commands of a run are a prefix of init, add ., commit in
\* that order, spawned right after a successful probe for git; every one but
\* the last exited with code 0, so a command starts only after the previous
\* one succeeded and nothing runs after a failure; once the git step is over
\* the sequence is complete or ends with the failed command; and with verbose
\* unset a failed git command never fails the run, which returns its path.
C29_GitSequence ==
  LET g == GitSpawns
      k == Len(g)
      order == << <<"init">>, <<"add", ".">>,
                  <<"commit", "-m", "Initial commit from nodejs-fs">> >>
  IN
  /\ k <= 3
  /\ \A i \in 1..k : g[i].args = order[i]
  /\ \A i \in 1..(k - 1) : g[i].ok
  /\ k > 0 =>
       /\ options.git = "true"
       /\ Len(spawned) > k
       /\ spawned[Len(spawned) - k] = GitProbe(TRUE)
       /\ \A i \in 1..k : spawned[Len(spawned) - k + i] = g[i]
  \* a successful probe is always followed by git init
  /\ ~(spawned # <<>> /\ spawned[Len(spawned)] = GitProbe(TRUE))
  /\ (k > 0 /\ pc \in {"returned", "catch", "thrown", "exited"}) =>
       (k = 3 \/ ~g[k].ok)
  /\ (k > 0 /\ ~g[k].ok /\ options.verbose # "true") =>
       /\ failedAt = "none"
       /\ error = NoError
       /\ pc \in {"returned", "exited"}
       /\ projectPath = Cwd \o <<"/">> \o projectName
       /\ pc = "exited" => exitCode = 0

C29_Witness ==
  /\ pc = "exited"
  /\ exitCode = 0
  /\ options.git = "true"
  /\ options.verbose = "unset"
  /\ Len(GitSpawns) = 2
  /\ GitSpawns[1] = [command |-> "git", args |-> <<"init">>, ok |-> TRUE]
  /\ GitSpawns[2] = [command |-> "git", args |-> <<"add", ".">>, ok |-> FALSE]
  /\ projectPath = Resolve(projectName)

----------------------------------------------------------------------------
(* copyTemplateFiles (createProject.ts 99-120) called directly on a project
   directory, for every kind of template option.  Here steps records the
   template name handed to copyTemplate. *)

TemplateInputs ==
  {"basic", "secure", "full", "unset", "minimal", "", "constructor", "toString"}

InitFiles ==
  /\ \E e \in {Dir(NoFiles), Dir(Notes), Dir(OwnReadme)} :
       /\ disk = [p \in ProjectPaths |-> IF p = CopyTarget THEN e ELSE Absent]
       /\ start = e
  /\ options \in [install : {"false"}, git : {"unset"}, verbose : VerboseValues,
                  template : TemplateInputs]
  /\ pc = "files"
  /\ projectName = MyApi
  /\ projectPath = CopyTarget
  /\ steps = <<>>
  /\ spawned = <<>>
  /\ warnings = <<>>
  /\ error = NoError
  /\ failedAt = "none"
  /\ exitCode = -1
  /\ runs = 0
  /\ prev = NoPrev
  /\ fault = "none"

\* await copyTemplateFiles(projectPath, options)
CopyFilesCall ==
  /\ pc = "files"
  /\ steps' = <<templateName(options.template)>>
  /\ \E o \in CopyOutcomes(disk[projectPath], templateName(options.template)) :
       /\ disk' = [disk EXCEPT ![projectPath] = o.entry]
       /\ error' = o.err
       /\ fault' = o.fault
       /\ warnings' = IF o.err # NoError
                        THEN <<"Failed to copy template files">> ELSE <<>>
  /\ pc' = "copied"
  /\ UNCHANGED <<projectName, options, projectPath, spawned, failedAt,
                 exitCode, runs, prev, start>>

NextFiles == CopyFilesCall

SpecFiles == InitFiles /\ [][NextFiles]_vars

\* C30: whatever the template option is, copyTemplateFiles hands the name
\* base-backend to copyTemplate, and when no I/O error is met the project
\* directory ends as the same tree: its own entries plus every entry of the
\* base-backend plan that it did not have.
C30_TemplateIgnored ==
  pc = "copied" =>
    /\ steps = <<"base-backend">>
    /\ fault = "none" =>
         /\ error = NoError
         /\ disk[projectPath] =
              Dir(AfterCopy(start.files, BaseBackend, CopyPlan(BaseBackend)))

====
